---- MODULE Spec2Model ----
(***************************************************************************)
(* A model of ai_data_visualisation_agent.py: the Streamlit page main(),   *)
(* the Analyze click handler (sandbox creation, dataset upload, the        *)
(* chat_with_llm retry ladder, code execution, result rendering), and the  *)
(* two pure helpers extract_python_code and display_visualization_results. *)
(*                                                                         *)
(* Streamlit runs the script once per widget event and per browser         *)
(* session; st.session_state is per session, os.environ is per process.    *)
(***************************************************************************)
EXTENDS Integers, Sequences, FiniteSets, TLC

VARIABLES
    session_state,  \* per session: openrouter_api_key, e2b_api_key, model_name, is_premium
    widgets,        \* per session: selected_label, uploaded_file, access_code
    run,            \* per session: the locals and the output of the current script run
    environ,        \* os.environ['E2B_API_KEY'], one per server process
    response_text,  \* argument of an extract_python_code call
    python_code,    \* its return value
    code_results,   \* argument of a display_visualization_results call
    displayed       \* the widgets it emitted

vars == <<session_state, widgets, run, environ,
          response_text, python_code, code_results, displayed>>

appVars == <<session_state, widgets, run, environ>>
extractVars == <<response_text, python_code>>
displayVars == <<code_results, displayed>>

-----------------------------------------------------------------------------
(* Values *)

None == "None"

Sessions == {"s1", "s2"}

GEMINI == "google/gemini-2.0-flash-exp:free"

\* main: model_options, label -> model id
ModelLabels ==
    {"[FREE] Llama 3.3 70B", "[FREE] Gemini Flash 2.0", "[FREE] GPT-4o",
     "[PREMIUM] DeepSeek R1", "[PREMIUM] Claude 3.5 Sonnet"}

model_options(label) ==
    CASE label = "[FREE] Llama 3.3 70B" -> "meta-llama/llama-3.3-70b-instruct:free"
      [] label = "[FREE] Gemini Flash 2.0" -> GEMINI
      [] label = "[FREE] GPT-4o" -> "openai/gpt-4o"
      [] label = "[PREMIUM] DeepSeek R1" -> "deepseek/deepseek-r1"
      [] label = "[PREMIUM] Claude 3.5 Sonnet" -> "anthropic/claude-3.5-sonnet"

\* "[PREMIUM]" in selected_label
HasPremiumTag(label) ==
    label \in {"[PREMIUM] DeepSeek R1", "[PREMIUM] Claude 3.5 Sonnet"}

PremiumModels == {model_options(l) : l \in {x \in ModelLabels : HasPremiumTag(x)}}

\* access_code == "PRO-2025"
LicenseValid(access_code) == access_code = "PRO-2025"

\* A ladder with a fourth tier.
token_attempts_four == <<2000, 500, 200, 100>>

\* chat_with_llm: token_attempts = [2000, 500, 200]
token_attempts == <<2000, 500, 200>>

\* An exception's text str(e), as the set of the substrings the handler
\* looks for that occur in it.
ErrorMsgs == SUBSET {"402", "429", "50"}

\* A text is a sequence of characters; BQ is the backquote, and the word
\* python is kept as one character (lower case, or "Python" for any other
\* casing of it).
BQ == "BQ"

\* A short response text of the model.
Responses == {<<"x">>, <<BQ, BQ, BQ, "python", " ", "x", BQ, BQ, BQ>>}

\* The outcome of one client.chat.completions.create call.
Success(text) == [ok |-> TRUE, err |-> {}, text |-> text]
Failure(e) == [ok |-> FALSE, err |-> e, text |-> <<>>]
Outcomes == {Success(t) : t \in Responses} \cup {Failure(e) : e \in ErrorMsgs}

\* Text values returned or shown: a literal, str(error), the response, None.
Lit(s) == [kind |-> "literal", lit |-> s, err |-> {}, text |-> <<>>]
StrOfError(e) == [kind |-> "str(error)", lit |-> "", err |-> e, text |-> <<>>]
ResponseText(t) == [kind |-> "llm_response", lit |-> "", err |-> {}, text |-> t]
NoneText == [kind |-> "None", lit |-> "", err |-> {}, text |-> <<>>]

\* An Optional[List[Any]]: None, or a list of result objects.
NoneResults == [is_none |-> TRUE, list |-> <<>>]
ResultList(l) == [is_none |-> FALSE, list |-> l]

\* Python truthiness of an Optional[List]: None and [] are falsy.
Truthy(results) == ~results.is_none /\ Len(results.list) > 0

\* st.error / st.warning output: the text and the exception formatted into it.
Msg(level, text, e) == [level |-> level, text |-> text, err |-> e]

-----------------------------------------------------------------------------
(* State *)

\* The locals and the output of one script run, before anything has run.
FreshRun ==
    [pc |-> "done", event |-> "none", i |-> 0, llm_response |-> NoneText,
     code_interpreter |-> [created |-> FALSE, api_key |-> ""],
     sent_code |-> NoneText, code_results |-> NoneResults,
     calls |-> <<>>, ops |-> <<>>, messages |-> <<>>, rendered |-> <<>>,
     ret |-> [results |-> NoneResults, text |-> NoneText], returned |-> FALSE]

\* The sidebar without the access check.
SidebarModel_unchecked(selected_label, is_premium) == model_options(selected_label)

\* main, lines 299-307: the model the sidebar stores for the selected label.
SidebarModel(selected_label, is_premium) ==
    IF HasPremiumTag(selected_label)
      THEN IF is_premium THEN model_options(selected_label) ELSE None
      ELSE model_options(selected_label)

\* check_premium_access: what it shows when access is denied.
SidebarMessages(selected_label, is_premium) ==
    IF HasPremiumTag(selected_label) /\ ~is_premium
      THEN <<Msg("warning", "This model is locked for Free users.", {})>>
      ELSE <<>>

\* main: "Initialize session state"
InitSessionState ==
    [openrouter_api_key |-> "", e2b_api_key |-> "",
     model_name |-> GEMINI, is_premium |-> FALSE]

\* The widgets as first rendered: the selectbox on its first option.
InitWidgets ==
    [selected_label |-> "[FREE] Llama 3.3 70B", uploaded_file |-> FALSE,
     access_code |-> ""]

\* A session after the first run of the script, which no event triggers.
InitApp ==
    /\ session_state = [s \in Sessions |->
          [InitSessionState EXCEPT !.model_name =
              SidebarModel(InitWidgets.selected_label, InitSessionState.is_premium)]]
    /\ widgets = [s \in Sessions |-> InitWidgets]
    /\ run = [s \in Sessions |-> FreshRun]
    /\ environ = None

\* No call of either helper has returned yet.
NotCalled == [called |-> FALSE, value |-> <<>>]
Returned(v) == [called |-> TRUE, value |-> v]

InitExtract ==
    /\ response_text = <<>>
    /\ python_code = NotCalled

InitDisplay ==
    /\ code_results = NoneResults
    /\ displayed = NotCalled

Init == InitApp /\ InitExtract /\ InitDisplay

-----------------------------------------------------------------------------
(* The page: one script run per widget event *)

\* The script is not running in session s: a widget event can start a run.
Idle(s) == run[s].pc = "done"

\* A run that only redraws the page, triggered by `event`.
Redraw(s, event) ==
    [FreshRun EXCEPT !.event = event,
        !.messages = SidebarMessages(widgets'[s].selected_label,
                                     session_state'[s].is_premium)]

\* The two st.text_input fields of the sidebar are edited.
EnterKeys(s, openrouter_key, e2b_key) ==
    /\ Idle(s)
    /\ widgets' = widgets
    /\ session_state' = [session_state EXCEPT ![s] =
          [@ EXCEPT !.openrouter_api_key = openrouter_key,
                    !.e2b_api_key = e2b_key,
                    !.model_name = SidebarModel(widgets[s].selected_label,
                                               session_state[s].is_premium)]]
    /\ run' = [run EXCEPT ![s] = Redraw(s, "text_input")]
    /\ UNCHANGED <<environ, extractVars, displayVars>>

\* st.file_uploader: a CSV file is chosen or removed.
UploadFile(s, present) ==
    /\ Idle(s)
    /\ widgets' = [widgets EXCEPT ![s].uploaded_file = present]
    /\ session_state' = [session_state EXCEPT ![s].model_name =
          SidebarModel(widgets[s].selected_label, session_state[s].is_premium)]
    /\ run' = [run EXCEPT ![s] = Redraw(s, "file_uploader")]
    /\ UNCHANGED <<environ, extractVars, displayVars>>

\* st.selectbox "Select Model".
SelectModel(s, label) ==
    /\ Idle(s)
    /\ widgets' = [widgets EXCEPT ![s].selected_label = label]
    /\ session_state' = [session_state EXCEPT ![s].model_name =
          SidebarModel(label, session_state[s].is_premium)]
    /\ run' = [run EXCEPT ![s] = Redraw(s, "selectbox")]
    /\ UNCHANGED <<environ, extractVars, displayVars>>

\* check_premium_access: is_premium after "Unlock Pro" with this license key.
Unlocked(is_premium, access_code) ==
    IF LicenseValid(access_code) THEN TRUE ELSE is_premium

\* The "Unlock Pro" button, which is drawn only while a [PREMIUM] label is
\* selected and the session is not premium. A valid key sets is_premium and
\* st.rerun() runs the script again at once.
UnlockPro(s, access_code) ==
    /\ Idle(s)
    /\ HasPremiumTag(widgets[s].selected_label)
    /\ ~session_state[s].is_premium
    /\ widgets' = [widgets EXCEPT ![s].access_code = access_code]
    /\ LET premium == Unlocked(session_state[s].is_premium, access_code) IN
       /\ session_state' = [session_state EXCEPT ![s] =
             [@ EXCEPT !.is_premium = premium,
                       !.model_name = SidebarModel(widgets[s].selected_label, premium)]]
       /\ run' = [run EXCEPT ![s] =
             [FreshRun EXCEPT !.event = "unlock",
                 !.messages =
                    IF premium THEN <<>>
                    ELSE SidebarMessages(widgets[s].selected_label, premium)
                         \o <<Msg("error", "Invalid license key", {})>>]]
    /\ UNCHANGED <<environ, extractVars, displayVars>>

\* main, lines 385-390: the error the Analyze click shows instead of running.
ValidationError(ss, query) ==
    IF ss.openrouter_api_key = ""
      THEN <<Msg("error", "Please enter your OpenRouter API key in the sidebar", {})>>
    ELSE IF ss.e2b_api_key = ""
      THEN <<Msg("error", "Please enter your E2B API key in the sidebar", {})>>
    ELSE IF query = ""
      THEN <<Msg("error", "Please enter a question about your data", {})>>
    ELSE <<>>

\* The Analyze button (drawn when a file is uploaded), up to line 395: the
\* sidebar, the validation, and os.environ['E2B_API_KEY'] = e2b_api_key.
ClickAnalyze(s, query) ==
    /\ Idle(s)
    /\ widgets[s].uploaded_file
    /\ widgets' = widgets
    /\ session_state' = [session_state EXCEPT ![s].model_name =
          SidebarModel(widgets[s].selected_label, session_state[s].is_premium)]
    /\ LET invalid == ValidationError(session_state[s], query)
           base == Redraw(s, "analyze") IN
       IF invalid # <<>>
         THEN /\ run' = [run EXCEPT ![s] =
                    [base EXCEPT !.messages = @ \o invalid]]
              /\ environ' = environ
         ELSE /\ run' = [run EXCEPT ![s] = [base EXCEPT !.pc = "create"]]
              /\ environ' = session_state[s].e2b_api_key
    /\ UNCHANGED <<extractVars, displayVars>>

-----------------------------------------------------------------------------
(* extract_python_code *)

\* \s
IsSpace(c) == c = " "

\* The literal ``` at position p of text t.
FenceAt(t, p) ==
    /\ p >= 1
    /\ p + 2 <= Len(t)
    /\ t[p] = BQ /\ t[p + 1] = BQ /\ t[p + 2] = BQ

\* The word matched in lower case only, as without re.IGNORECASE.
WordMatches_case_sensitive(c, ignorecase) == c = "python"

\* The word after the fence matches "python": exactly, or in any casing
\* under re.IGNORECASE.
WordMatches(c, ignorecase) ==
    \/ c = "python"
    \/ ignorecase /\ c = "Python"

\* The literal ```python at position p.
TagAt(t, p, ignorecase) ==
    /\ FenceAt(t, p)
    /\ p + 3 <= Len(t)
    /\ WordMatches(t[p + 3], ignorecase)

\* The length of a regex's leading literal: ```python or ```.
LiteralLen(tagged) == IF tagged THEN 4 ELSE 3

LiteralAt(t, p, tagged, ignorecase) ==
    IF tagged THEN TagAt(t, p, ignorecase) ELSE FenceAt(t, p)

\* \s* from position q: the number of whitespace characters it can take.
RECURSIVE SpaceRun(_, _)
SpaceRun(t, q) ==
    IF q <= Len(t) /\ IsSpace(t[q]) THEN 1 + SpaceRun(t, q + 1) ELSE 0

\* (.*?)``` from position g: the lazy group grows one character at a time
\* until the closing ``` follows it; 0 when no closing fence is found.
RECURSIVE LazyGroupEnd(_, _)
LazyGroupEnd(t, g) ==
    IF g + 2 > Len(t) THEN 0
    ELSE IF FenceAt(t, g) THEN g
    ELSE LazyGroupEnd(t, g + 1)

NoMatch == [found |-> FALSE, group |-> <<>>]

\* \s*(.*?)``` after the literal, \s* having taken k characters from q:
\* greedy, it gives characters back one at a time when the rest fails.
RECURSIVE MatchTail(_, _, _)
MatchTail(t, q, k) ==
    LET r == LazyGroupEnd(t, q + k) IN
    IF r # 0 THEN [found |-> TRUE, group |-> SubSeq(t, q + k, r - 1)]
    ELSE IF k > 0 THEN MatchTail(t, q, k - 1)
    ELSE NoMatch

\* re.search: the match at the leftmost position where the pattern matches.
RECURSIVE Search(_, _, _, _)
Search(t, p, tagged, ignorecase) ==
    IF p > Len(t) THEN NoMatch
    ELSE LET q == p + LiteralLen(tagged)
             m == IF LiteralAt(t, p, tagged, ignorecase)
                    THEN MatchTail(t, q, SpaceRun(t, q))
                    ELSE NoMatch IN
         IF m.found THEN m ELSE Search(t, p + 1, tagged, ignorecase)

\* str.strip()
RECURSIVE Strip(_)
Strip(t) ==
    IF t = <<>> THEN t
    ELSE IF IsSpace(Head(t)) THEN Strip(Tail(t))
    ELSE IF IsSpace(t[Len(t)]) THEN Strip(SubSeq(t, 1, Len(t) - 1))
    ELSE t

\* Whether pat occurs in t at position p.
OccursAt(t, p, pat) ==
    /\ p + Len(pat) - 1 <= Len(t)
    /\ \A k \in 1..Len(pat) : t[p + k - 1] = pat[k]

\* str.replace(pat, ""): the occurrences found left to right, not
\* overlapping, are removed.
RECURSIVE Remove(_, _)
Remove(t, pat) ==
    IF t = <<>> THEN t
    ELSE IF OccursAt(t, 1, pat) THEN Remove(SubSeq(t, Len(pat) + 1, Len(t)), pat)
    ELSE <<Head(t)>> \o Remove(Tail(t), pat)

\* Line 36: re.search(r'```python\s*(.*?)```', ..., re.DOTALL | re.IGNORECASE)
SearchPythonBlock(t) == Search(t, 1, TRUE, TRUE)

\* Line 41: re.search(r'```\s*(.*?)```', ..., re.DOTALL)
SearchGenericBlock(t) == Search(t, 1, FALSE, FALSE)

\* Line 48: .replace("```python", "").replace("```", "").strip()
Cleaned(t) == Strip(Remove(Remove(t, <<BQ, BQ, BQ, "python">>), <<BQ, BQ, BQ>>))

extract_python_code(t) ==
    LET m1 == SearchPythonBlock(t) IN
    IF m1.found THEN Strip(m1.group)
    ELSE LET m2 == SearchGenericBlock(t) IN
         IF m2.found THEN Strip(m2.group)
         ELSE Cleaned(t)

-----------------------------------------------------------------------------
(* display_visualization_results *)

\* A result object is duck-typed. Each of png, data and text is "absent"
\* (no such attribute), "empty" (None or empty) or non-empty; a non-empty
\* png is "valid" (base64 of an image) or "invalid" (decoding raises), a
\* non-empty data or text is "nonempty".
PngValues == {"absent", "empty", "valid", "invalid"}
AttrValues == {"absent", "empty", "nonempty"}
ResultObjects == [png : PngValues, data : AttrValues, text : AttrValues]

\* hasattr(result, a) and result.a
NonEmpty(v) == v \in {"valid", "invalid", "nonempty"}

\* A widget drawn on the page, for result number `of` (0: for no result).
Widget(kind, of) == [widget |-> kind, of |-> of]

\* Lines 187-192: the image, or st.error when decoding the png raises.
ShowPng(png, k) ==
    IF png = "valid" THEN <<Widget("image", k)>> ELSE <<Widget("error", k)>>

\* The loop body with the table tested before the image.
DisplayResult_data_first(result, k) ==
    IF NonEmpty(result.data) THEN <<Widget("dataframe", k)>>
    ELSE IF NonEmpty(result.png) THEN ShowPng(result.png, k)
    ELSE IF NonEmpty(result.text) THEN <<Widget("text", k)>>
    ELSE <<>>

\* Lines 186-201: the body of the loop, for the k-th result.
DisplayResult(result, k) ==
    IF NonEmpty(result.png) THEN ShowPng(result.png, k)
    ELSE IF NonEmpty(result.data) THEN <<Widget("dataframe", k)>>
    ELSE IF NonEmpty(result.text) THEN <<Widget("text", k)>>
    ELSE <<>>

\* Lines 184-201: the loop over the results from the k-th on.
RECURSIVE DisplayFrom(_, _)
DisplayFrom(list, k) ==
    IF k > Len(list) THEN <<>>
    ELSE DisplayResult(list[k], k) \o DisplayFrom(list, k + 1)

display_visualization_results(results) ==
    IF ~Truthy(results)
      THEN <<Widget("warning: No visualization results to display.", 0)>>
      ELSE <<Widget("subheader: Analysis Results", 0)>> \o DisplayFrom(results.list, 1)

-----------------------------------------------------------------------------
(* The Analyze click, lines 392-422 *)

Log(r, op) == [r EXCEPT !.ops = Append(@, op)]
Say(r, level, text, e) == [r EXCEPT !.messages = Append(@, Msg(level, text, e))]

\* Lines 414-416: main's handler of an exception of the click.
MainExcept(r) ==
    [Say(r, "error", "An error occurred", {}) EXCEPT !.pc = "finally"]

\* Line 396: Sandbox.create(), which reads the API key from os.environ.
CreateSandbox(s, ok) ==
    /\ run[s].pc = "create"
    /\ LET r == Log(run[s], "create") IN
       run' = [run EXCEPT ![s] =
          IF ok
            THEN [r EXCEPT !.pc = "upload",
                    !.code_interpreter = [created |-> TRUE, api_key |-> environ]]
            ELSE MainExcept(r)]
    /\ UNCHANGED <<session_state, widgets, environ, extractVars, displayVars>>

\* upload_dataset, then lines 99-107 of chat_with_llm.
UploadDataset(s, ok) ==
    /\ run[s].pc = "upload"
    /\ LET r == Log(run[s], "upload") IN
       run' = [run EXCEPT ![s] =
          IF ok
            THEN [r EXCEPT !.pc = "llm", !.i = 0, !.llm_response = NoneText]
            ELSE MainExcept(Say(r, "error", "Error during file upload", {}))]
    /\ UNCHANGED <<session_state, widgets, environ, extractVars, displayVars>>

\* The matrix with the rate-limit branch tested first.
ErrorBranch_rate_first(error_msg, i, model_name) ==
    IF ("429" \in error_msg \/ "50" \in error_msg) /\ model_name # GEMINI
      THEN "switch_model"
    ELSE IF "402" \in error_msg /\ i < Len(token_attempts) - 1
      THEN "lower_tokens"
    ELSE "raise"

\* The matrix with the credit-limit branch taken on the last attempt too.
ErrorBranch_always_lower(error_msg, i, model_name) ==
    IF "402" \in error_msg
      THEN "lower_tokens"
    ELSE IF ("429" \in error_msg \/ "50" \in error_msg) /\ model_name # GEMINI
      THEN "switch_model"
    ELSE "raise"

\* Lines 124-143, the "error handling matrix": what the handler does with
\* the exception of attempt i (from 0) under the session's model.
ErrorBranch(error_msg, i, model_name) ==
    IF "402" \in error_msg /\ i < Len(token_attempts) - 1
      THEN "lower_tokens"
    ELSE IF ("429" \in error_msg \/ "50" \in error_msg) /\ model_name # GEMINI
      THEN "switch_model"
    ELSE "raise"

\* Lines 408-412 after chat_with_llm returned falsy results.
MainNoResults(r) ==
    [Say(r, "warning", "No visualization generated. Try rephrasing your query.", {})
        EXCEPT !.pc = "finally"]

\* The end of the loop without its return: the function goes on to line 149.
LadderExhausted_no_return(r) ==
    [Say(r, "error", "Failed to generate LLM response after multiple attempts.", {})
        EXCEPT !.pc = "exec"]

\* Lines 145-147: the loop ended and llm_response is None.
LadderExhausted(r) ==
    MainNoResults(
        [Say(r, "error", "Failed to generate LLM response after multiple attempts.", {})
            EXCEPT !.returned = TRUE,
                   !.ret = [results |-> NoneResults,
                            text |-> Lit("Failed to generate LLM response.")]])

\* Lines 156-158: the outer handler of chat_with_llm.
ChatExcept(r, error) ==
    MainNoResults(
        [Say(r, "error", "Error communicating with OpenRouter", error)
            EXCEPT !.returned = TRUE,
                   !.ret = [results |-> NoneResults, text |-> StrOfError(error)]])

\* The loop variable after `continue`: the next attempt, or the loop's end.
Continue(r) ==
    IF r.i + 1 < Len(token_attempts)
      THEN [r EXCEPT !.i = @ + 1]
      ELSE LadderExhausted([r EXCEPT !.i = @ + 1])

\* Lines 109-143: one iteration of the loop, the call and its handling.
ChatCompletion(s, outcome) ==
    /\ run[s].pc = "llm"
    /\ LET i == run[s].i
           model == session_state[s].model_name
           call == [model |-> model, max_tokens |-> token_attempts[i + 1],
                    outcome |-> outcome]
           r == [Log(run[s], "chat") EXCEPT !.calls = Append(@, call)]
           branch == ErrorBranch(outcome.err, i, model) IN
       IF outcome.ok
         THEN /\ run' = [run EXCEPT ![s] =
                    [r EXCEPT !.llm_response = ResponseText(outcome.text),
                              !.pc = "exec"]]
              /\ session_state' = session_state
         ELSE CASE branch = "lower_tokens" ->
                   /\ run' = [run EXCEPT ![s] = Continue(
                         Say(r, "warning", "Credit limit reached. Retrying with lower limit...", {}))]
                   /\ session_state' = session_state
                [] branch = "switch_model" ->
                   /\ run' = [run EXCEPT ![s] = Continue(
                         Say(r, "warning", "Model is busy (Rate Limit). Switching to Gemini 2.0 Flash (Free)...", {}))]
                   /\ session_state' = [session_state EXCEPT ![s].model_name = GEMINI]
                [] branch = "raise" ->
                   /\ run' = [run EXCEPT ![s] = ChatExcept(r, outcome.err)]
                   /\ session_state' = session_state
    /\ UNCHANGED <<widgets, environ, extractVars, displayVars>>

\* What run_code can do: raise, report exec_result.error, or give results.
ExecRaises == [kind |-> "raises", results |-> <<>>]
ExecError == [kind |-> "error", results |-> <<>>]
ExecResults(l) == [kind |-> "results", results |-> l]

\* code_interpret: the results, or None with an error shown.
code_interpret(r, exec) ==
    CASE exec.kind = "raises" ->
           [Say(r, "error", "Error executing code", {}) EXCEPT !.code_results = NoneResults]
      [] exec.kind = "error" ->
           [Say(r, "error", "Code execution error", {}) EXCEPT !.code_results = NoneResults]
      [] exec.kind = "results" ->
           [r EXCEPT !.code_results = ResultList(exec.results)]

\* Lines 149-154 and 408-412: the code is extracted and run in the sandbox,
\* chat_with_llm returns, and main looks at the results.
CodeInterpret(s, exec) ==
    /\ run[s].pc = "exec"
    /\ LET code == extract_python_code(run[s].llm_response.text)
           sent == [Log(run[s], "exec") EXCEPT !.sent_code = ResponseText(code)]
           r == code_interpret(sent, exec)
           back == [r EXCEPT !.returned = TRUE,
                      !.ret = [results |-> r.code_results, text |-> r.llm_response]] IN
       run' = [run EXCEPT ![s] =
          IF Truthy(back.code_results)
            THEN [back EXCEPT !.pc = "render"]
            ELSE MainNoResults(back)]
    /\ UNCHANGED <<session_state, widgets, environ, extractVars, displayVars>>

\* Lines 409-410: display_visualization_results(code_results).
Render(s) ==
    /\ run[s].pc = "render"
    /\ run' = [run EXCEPT ![s] =
          [Log(run[s], "render") EXCEPT !.pc = "finally",
              !.rendered = display_visualization_results(run[s].code_results)]]
    /\ UNCHANGED <<session_state, widgets, environ, extractVars, displayVars>>

\* Lines 417-422: the sandbox, if one was created, is killed.
Finally(s) ==
    /\ run[s].pc = "finally"
    /\ LET r == IF run[s].code_interpreter.created
                  THEN Log(run[s], "kill") ELSE run[s] IN
       run' = [run EXCEPT ![s] = [r EXCEPT !.pc = "done"]]
    /\ UNCHANGED <<session_state, widgets, environ, extractVars, displayVars>>

-----------------------------------------------------------------------------
(* Specifications *)

OpenRouterKeys == {"", "sk-or"}
E2BKeys == {"", "e2b-a"}
LicenseKeys == {"PRO-2025", "pro-2025"}
Queries == {"", "q"}

PlotResult == [png |-> "valid", data |-> "empty", text |-> "nonempty"]
TableResult == [png |-> "empty", data |-> "nonempty", text |-> "nonempty"]
ExecOutcomes ==
    {ExecRaises, ExecError, ExecResults(<<>>),
     ExecResults(<<PlotResult>>), ExecResults(<<TableResult, PlotResult>>)}

\* One browser session using the page.
Next ==
    \E s \in {"s1"} :
        \/ \E k \in OpenRouterKeys, e \in E2BKeys : EnterKeys(s, k, e)
        \/ \E b \in BOOLEAN : UploadFile(s, b)
        \/ \E l \in ModelLabels : SelectModel(s, l)
        \/ \E c \in LicenseKeys : UnlockPro(s, c)
        \/ \E q \in Queries : ClickAnalyze(s, q)
        \/ \E ok \in BOOLEAN : CreateSandbox(s, ok)
        \/ \E ok \in BOOLEAN : UploadDataset(s, ok)
        \/ \E o \in Outcomes : ChatCompletion(s, o)
        \/ \E x \in ExecOutcomes : CodeInterpret(s, x)
        \/ Render(s)
        \/ Finally(s)

Spec == Init /\ [][Next]_vars

\* Two browser sessions of one server process, each with its keys entered
\* and a file uploaded, whose users click Analyze.
InitConc ==
    /\ session_state =
          [s \in Sessions |->
              [openrouter_api_key |-> "sk-or",
               e2b_api_key |-> IF s = "s1" THEN "e2b-a" ELSE "e2b-b",
               model_name |-> SidebarModel(InitWidgets.selected_label, FALSE),
               is_premium |-> FALSE]]
    /\ widgets = [s \in Sessions |-> [InitWidgets EXCEPT !.uploaded_file = TRUE]]
    /\ run = [s \in Sessions |-> [FreshRun EXCEPT !.event = "file_uploader"]]
    /\ environ = None
    /\ InitExtract
    /\ InitDisplay

NextConc ==
    \E s \in Sessions :
        \/ ClickAnalyze(s, "q")
        \/ \E ok \in BOOLEAN : CreateSandbox(s, ok)
        \/ \E ok \in BOOLEAN : UploadDataset(s, ok)
        \/ \E o \in {Success(<<"x">>), Failure({"429"})} : ChatCompletion(s, o)
        \/ \E x \in {ExecError, ExecResults(<<PlotResult>>)} : CodeInterpret(s, x)
        \/ Render(s)
        \/ Finally(s)

SpecConc == InitConc /\ [][NextConc]_vars

\* The texts extract_python_code is called on: up to MaxChunks pieces, each
\* a fence, a backquote, the word python in either casing, a blank or
\* another character.
MaxChunks == 5

Chunks == {<<BQ, BQ, BQ>>, <<BQ>>, <<"python">>, <<"Python">>, <<" ">>, <<"x">>}

RECURSIVE Flatten(_)
Flatten(cs) == IF cs = <<>> THEN <<>> ELSE Head(cs) \o Flatten(Tail(cs))

Texts == {Flatten(cs) : cs \in UNION {[1..n -> Chunks] : n \in 0..MaxChunks}}

InitExtractCall ==
    /\ InitApp
    /\ InitDisplay
    /\ response_text \in Texts
    /\ python_code = NotCalled

ExtractCall ==
    /\ ~python_code.called
    /\ python_code' = Returned(extract_python_code(response_text))
    /\ UNCHANGED <<appVars, displayVars, response_text>>

SpecExtract == InitExtractCall /\ [][ExtractCall]_vars

\* The lists display_visualization_results is called on: None, or up to
\* MaxResults result objects.
MaxResults == 2

ResultLists ==
    {NoneResults} \cup
    {ResultList(l) : l \in UNION {[1..n -> ResultObjects] : n \in 0..MaxResults}}

InitDisplayCall ==
    /\ InitApp
    /\ InitExtract
    /\ code_results \in ResultLists
    /\ displayed = NotCalled

DisplayCall ==
    /\ ~displayed.called
    /\ displayed' = Returned(display_visualization_results(code_results))
    /\ UNCHANGED <<appVars, extractVars, code_results>>

SpecDisplay == InitDisplayCall /\ [][DisplayCall]_vars

-----------------------------------------------------------------------------
(* Properties *)

\* The attempts of the current click of session s, failed ones and all.
Calls(s) == run[s].calls
Failed(call) == ~call.outcome.ok
MatchesRateLimit(call) == "429" \in call.outcome.err \/ "50" \in call.outcome.err
MatchesCredit(call) == "402" \in call.outcome.err

\* C1: within one call of chat_with_llm the chat-completion API is called
\* at most three times, the k-th call with max_tokens 2000, 500 and 200,
\* and no call follows a call that succeeded.
C1_ThreeTiers ==
    \A s \in Sessions :
        /\ Len(Calls(s)) <= 3
        /\ \A k \in 1..Len(Calls(s)) :
              /\ k = 1 => Calls(s)[k].max_tokens = 2000
              /\ k = 2 => Calls(s)[k].max_tokens = 500
              /\ k = 3 => Calls(s)[k].max_tokens = 200
              /\ k < Len(Calls(s)) => Failed(Calls(s)[k])

\* Three calls were made and the third succeeded.
C1_Witness ==
    \E s \in Sessions :
        /\ Len(Calls(s)) = 3
        /\ Calls(s)[3].outcome.ok
        /\ run[s].pc = "done"

\* The external operations of a click, in the order the claim gives them.
Rank(op) ==
    CASE op = "create" -> 1
      [] op = "upload" -> 2
      [] op = "chat" -> 3
      [] op = "exec" -> 4
      [] op = "render" -> 5
      [] op = "kill" -> 6

Count(ops, op) == Cardinality({k \in 1..Len(ops) : ops[k] = op})

\* C2: for one Analyze click the external operations happen in the order
\* sandbox creation, dataset upload, chat-completion calls, code execution,
\* result rendering, none before the one it follows has happened; upload
\* and execution happen at most once, and execution only after a
\* chat-completion call has succeeded.
C2_ClickOrder ==
    \A s \in Sessions :
        LET ops == run[s].ops IN
        /\ ops # <<>> => run[s].event = "analyze" /\ ops[1] = "create"
        /\ \A j, k \in 1..Len(ops) : j < k => Rank(ops[j]) <= Rank(ops[k])
        /\ \A op \in {"create", "upload", "exec", "render"} : Count(ops, op) <= 1
        /\ Count(ops, "chat") = Len(Calls(s))
        /\ Count(ops, "chat") > 0 => Count(ops, "upload") = 1
        /\ Count(ops, "exec") > 0 =>
              /\ Calls(s) # <<>>
              /\ Calls(s)[Len(Calls(s))].outcome.ok
        /\ Count(ops, "render") > 0 => Count(ops, "exec") = 1

\* A click that went through every operation, with a retry.
C2_Witness ==
    \E s \in Sessions :
        run[s].ops = <<"create", "upload", "chat", "chat", "exec", "render", "kill">>

\* C3 (state part): a chat-completion call made with a [PREMIUM] model
\* implies that the session's is_premium flag is true.
C3_PremiumCallsArePremium ==
    \A s \in Sessions :
        \A k \in 1..Len(Calls(s)) :
            Calls(s)[k].model \in PremiumModels => session_state[s].is_premium

\* C3 (step part): is_premium changes only to true, and only in a run that
\* the Unlock Pro button started with the license key PRO-2025.
C3_OnlyUnlockSetsPremium ==
    \A s \in Sessions :
        session_state'[s].is_premium # session_state[s].is_premium =>
            /\ session_state'[s].is_premium
            /\ run'[s].event = "unlock"
            /\ widgets'[s].access_code = "PRO-2025"

\* C3: is_premium starts false and is set to true only by Unlock Pro with
\* the license key "PRO-2025", and in every reachable state a call made
\* with a [PREMIUM] model implies that is_premium is true.
C3_PremiumGate ==
    /\ \A s \in Sessions : ~session_state[s].is_premium
    /\ []C3_PremiumCallsArePremium
    /\ [][C3_OnlyUnlockSetsPremium]_vars

\* A call was made with a [PREMIUM] model and was rate-limited, and the
\* handler switched the session's model.
C3_Witness ==
    \E s \in Sessions :
        /\ Len(Calls(s)) >= 1
        /\ Calls(s)[1].model \in PremiumModels
        /\ session_state[s].model_name = GEMINI

\* C4: each sandbox is created with the E2B API key of the session that
\* creates it.
C4_OwnKey ==
    \A s \in Sessions :
        run[s].code_interpreter.created =>
            run[s].code_interpreter.api_key = session_state[s].e2b_api_key

\* C7: when an attempt other than the last fails with an error whose text
\* holds "402", whether or not it also matches the rate-limit pattern, the
\* next attempt is made with the next lower token limit and the same
\* model; until it is made it is the step the handler is at, with
\* model_name unchanged.
C7_CreditRetry ==
    \A s \in Sessions :
        \A k \in 1..Len(Calls(s)) :
            (k <= 2 /\ Failed(Calls(s)[k]) /\ MatchesCredit(Calls(s)[k])) =>
                IF k < Len(Calls(s))
                  THEN /\ Calls(s)[k + 1].model = Calls(s)[k].model
                       /\ Calls(s)[k + 1].max_tokens = (IF k = 1 THEN 500 ELSE 200)
                  ELSE /\ run[s].pc = "llm"
                       /\ run[s].i = k
                       /\ session_state[s].model_name = Calls(s)[k].model

\* The first attempt failed with a text holding both 402 and 429, under a
\* model other than the fallback, and the second attempt was made.
C7_Witness ==
    \E s \in Sessions :
        /\ Len(Calls(s)) >= 2
        /\ Calls(s)[1].outcome.err = {"402", "429"}
        /\ Calls(s)[1].model # GEMINI
        /\ Calls(s)[2].model = Calls(s)[1].model

\* C8: when an attempt fails with a rate-limit or service-unavailable error
\* (and no 402 in its text) under a model other than the fallback, a
\* further call is made with the fallback model at the next token limit;
\* until it is made it is the step the handler is at, with model_name
\* switched.
C8_SwitchAndRetry ==
    \A s \in Sessions :
        \A k \in 1..Len(Calls(s)) :
            (/\ Failed(Calls(s)[k])
             /\ MatchesRateLimit(Calls(s)[k])
             /\ ~MatchesCredit(Calls(s)[k])
             /\ Calls(s)[k].model # GEMINI) =>
                IF k < Len(Calls(s))
                  THEN /\ Calls(s)[k + 1].model = GEMINI
                       /\ Calls(s)[k + 1].max_tokens < Calls(s)[k].max_tokens
                  ELSE /\ run[s].pc = "llm"
                       /\ session_state[s].model_name = GEMINI

\* chat_with_llm has returned in session s without a successful attempt.
ReturnedWithoutSuccess(s) ==
    /\ run[s].returned
    /\ Calls(s) # <<>>
    /\ \A k \in 1..Len(Calls(s)) : Failed(Calls(s)[k])

Reported(s, text, e) == \E k \in 1..Len(run[s].messages) :
    run[s].messages[k] = Msg("error", text, e)

FailedAfterAttempts(s) ==
    /\ Reported(s, "Failed to generate LLM response after multiple attempts.", {})
    /\ run[s].ret = [results |-> NoneResults,
                     text |-> Lit("Failed to generate LLM response.")]

\* C9 as stated: whenever all three attempts of the ladder fail,
\* chat_with_llm reports "Failed to generate LLM response after multiple
\* attempts.", returns (None, "Failed to generate LLM response.") and runs
\* no code in the sandbox.
C9_AsStated ==
    \A s \in Sessions :
        (Len(Calls(s)) = 3 /\ ReturnedWithoutSuccess(s)) =>
            /\ FailedAfterAttempts(s)
            /\ Count(run[s].ops, "exec") = 0

\* C9 as amended: whenever chat_with_llm returns without a successful
\* attempt it runs no code in the sandbox and returns None as the results;
\* it reports "Failed to generate LLM response after multiple attempts."
\* and returns (None, "Failed to generate LLM response.") exactly when the
\* third attempt failed with a text matching the rate-limit pattern under a
\* model other than the fallback, and otherwise reports "Error
\* communicating with OpenRouter: <error>" and returns (None, str(error))
\* for the error of the last attempt.
C9_Amended ==
    \A s \in Sessions :
        ReturnedWithoutSuccess(s) =>
            LET last == Calls(s)[Len(Calls(s))] IN
            /\ Count(run[s].ops, "exec") = 0
            /\ run[s].ret.results = NoneResults
            /\ IF Len(Calls(s)) = 3 /\ MatchesRateLimit(last) /\ last.model # GEMINI
                 THEN /\ FailedAfterAttempts(s)
                      /\ ~Reported(s, "Error communicating with OpenRouter", last.outcome.err)
                 ELSE /\ Reported(s, "Error communicating with OpenRouter", last.outcome.err)
                      /\ run[s].ret.text = StrOfError(last.outcome.err)
                      /\ ~Reported(s, "Failed to generate LLM response after multiple attempts.", {})

\* The ladder ran out on a rate-limit error after two credit-limit errors.
C9_Witness ==
    \E s \in Sessions :
        /\ Len(Calls(s)) = 3
        /\ ReturnedWithoutSuccess(s)
        /\ FailedAfterAttempts(s)
        /\ run[s].pc = "done"

\* The widgets display_visualization_results drew for the k-th result.
WidgetsOf(k) == SelectSeq(displayed.value, LAMBDA w : w.of = k)

\* An attribute that is there and not empty.
Present(v) == v \notin {"absent", "empty"}

\* C5: display_visualization_results shows each result of a non-empty list
\* through at most one widget, chosen by the first non-empty attribute in
\* the order png (the image, or the error shown in its place when the png
\* cannot be decoded), data (the table), text (the plain text), under one
\* results header; a result with none of the three non-empty shows
\* nothing; an empty or None list gives only the warning "No visualization
\* results to display." and no header.
C5_Display ==
    displayed.called =>
        IF code_results.is_none \/ code_results.list = <<>>
          THEN displayed.value =
                  <<Widget("warning: No visualization results to display.", 0)>>
          ELSE /\ WidgetsOf(0) = <<Widget("subheader: Analysis Results", 0)>>
               /\ displayed.value[1] = Widget("subheader: Analysis Results", 0)
               /\ \A n \in 1..Len(displayed.value) :
                     displayed.value[n].of \in 0..Len(code_results.list)
               /\ \A k \in 1..Len(code_results.list) :
                     LET r == code_results.list[k]
                         ws == WidgetsOf(k) IN
                     /\ Len(ws) <= 1
                     /\ Present(r.png) =>
                           ws = <<Widget(IF r.png = "valid" THEN "image" ELSE "error", k)>>
                     /\ (~Present(r.png) /\ Present(r.data)) =>
                           ws = <<Widget("dataframe", k)>>
                     /\ (~Present(r.png) /\ ~Present(r.data) /\ Present(r.text)) =>
                           ws = <<Widget("text", k)>>
                     /\ (~Present(r.png) /\ ~Present(r.data) /\ ~Present(r.text)) =>
                           ws = <<>>

\* A result with png, data and text all non-empty was shown as the image
\* alone, and a result with none of them showed nothing.
C5_Witness ==
    /\ displayed.called
    /\ code_results = ResultList(
          <<[png |-> "valid", data |-> "nonempty", text |-> "nonempty"],
            [png |-> "empty", data |-> "absent", text |-> "empty"]>>)
    /\ displayed.value =
          <<Widget("subheader: Analysis Results", 0), Widget("image", 1)>>

\* The positions of text t where a ``` starts, and where a ```python starts
\* in any casing.
Fences(t) == {p \in 1..Len(t) : p + 2 <= Len(t) /\ \A d \in 0..2 : t[p + d] = BQ}
PythonTags(t) == {p \in Fences(t) : p + 3 <= Len(t) /\ t[p + 3] \in {"python", "Python"}}

Least(S) == CHOOSE x \in S : \A y \in S : x <= y
Greatest(S) == CHOOSE x \in S : \A y \in S : x >= y

\* The closing fences of a block whose content starts at position c.
Closings(t, c) == {r \in Fences(t) : r >= c}

\* The openings of the complete blocks: the tagged ones and the generic ones.
CompletePython(t) == {p \in PythonTags(t) : Closings(t, p + 4) # {}}
CompleteGeneric(t) == {p \in Fences(t) : Closings(t, p + 3) # {}}

\* The content of the block whose content starts at position c.
Content(t, c) == SubSeq(t, c, Least(Closings(t, c)) - 1)

\* A text without its leading and trailing whitespace.
Stripped(u) ==
    LET ink == {k \in 1..Len(u) : u[k] # " "} IN
    IF ink = {} THEN <<>> ELSE SubSeq(u, Least(ink), Greatest(ink))

\* A text with every occurrence of a marker removed, from position p on.
RECURSIVE Without(_, _, _)
Without(t, p, marker) ==
    IF p > Len(t) THEN <<>>
    ELSE IF /\ p + Len(marker) - 1 <= Len(t)
            /\ SubSeq(t, p, p + Len(marker) - 1) = marker
      THEN Without(t, p + Len(marker), marker)
    ELSE <<t[p]>> \o Without(t, p + 1, marker)

\* C6: extract_python_code returns the whitespace-stripped content of the
\* first complete ```python ... ``` block when one exists (the tag matched
\* in any casing, also when a generic block occurs earlier), otherwise the
\* stripped content of the first complete generic ``` ... ``` block,
\* otherwise the whole text with every ```python and then every ``` marker
\* removed, stripped.
C6_Extract ==
    python_code.called =>
        python_code.value =
            IF CompletePython(response_text) # {}
              THEN Stripped(Content(response_text, Least(CompletePython(response_text)) + 4))
            ELSE IF CompleteGeneric(response_text) # {}
              THEN Stripped(Content(response_text, Least(CompleteGeneric(response_text)) + 3))
            ELSE Stripped(Without(Without(response_text, 1, <<BQ, BQ, BQ, "python">>),
                                  1, <<BQ, BQ, BQ>>))

\* An empty generic block comes first, and the content of the mixed-case
\* python block after it is returned.
C6_Witness ==
    /\ python_code.called
    /\ response_text = <<BQ, BQ, BQ, BQ, BQ, BQ, "Python", "x", BQ, BQ, BQ>>
    /\ python_code.value = <<"x">>

====
